---- MODULE Spec2Model ----
(***************************************************************************)
(* Model of mxdev's requirements/constraints resolution (processing.py)    *)
(* and of the checkout/update behaviour exercised by tests/test_git.py.    *)
(*                                                                         *)
(* A text line is a sequence of tokens (strings); a file is a sequence of  *)
(* lines; a path or URL is a sequence of tokens as well, so that           *)
(* str.startswith, str.split(" "), str.strip and the f-string formatting   *)
(* of the source are computed on the text and not assumed.                 *)
(***************************************************************************)
EXTENDS Integers, Sequences, FiniteSets, TLC

VARIABLES
    files,            \* local file system: path -> sequence of lines
    remote,           \* reachable URLs: url -> sequence of lines
    infile,           \* cfg.infile
    package_keys,     \* cfg.package_keys
    override_keys,    \* cfg.override_keys
    ignore_keys,      \* cfg.ignore_keys
    overrides,        \* cfg.overrides, an ordered dict: sequence of <<pkg, line>>
    line,             \* argument of a direct process_line call
    variety,          \* variety argument of a direct call
    ret,              \* what the last direct call returned (or raised)
    requirements,     \* state.requirements
    constraints,      \* state.constraints
    out_constraints,  \* content of the file cfg.out_constraints
    runs,             \* number of completed calls of the running operation
    pc,               \* position of the calling program
    source,           \* develop.sources["egg"]: the source descriptor
    tips,             \* the remote repository: branch -> number of its tip commit
    wc,               \* the working copy at the source's path, or Absent
    adapter_calls,    \* what the last command asked of the git adapter, in order
    exit              \* how the last command ended

procVars == <<files, remote, infile, package_keys, override_keys, ignore_keys,
              overrides, line, variety, ret, requirements, constraints,
              out_constraints, runs, pc>>

vcsVars == <<source, tips, wc, adapter_calls, exit>>

vars == <<procVars, vcsVars>>

-----------------------------------------------------------------------------
(* Bounds *)

MaxLines == 2
MaxRuns == 2
MaxCommits == 2

-----------------------------------------------------------------------------
(* Text *)

NL == "\n"
SP == " "
HASH == "#"
Whitespace == {SP, NL}

Names == {"pkg", "Pkg", "other"}
Specifiers == {"==1.0", "==2.0"}
Keys == {"pkg", "other"}

\* str.lower() on the project name, as Requirement.key is computed
Lower(name) == IF name = "Pkg" THEN "pkg" ELSE name

RECURSIVE LStrip(_)
LStrip(s) ==
    IF s # <<>> /\ Head(s) \in Whitespace THEN LStrip(Tail(s)) ELSE s

RECURSIVE RStrip(_)
RStrip(s) ==
    IF s # <<>> /\ s[Len(s)] \in Whitespace
    THEN RStrip(SubSeq(s, 1, Len(s) - 1))
    ELSE s

\* str.strip()
Strip(s) == RStrip(LStrip(s))

\* str.startswith(prefix) for a one-token prefix
StartsWith(s, prefix) == s # <<>> /\ Head(s) = prefix

\* str.split(" "): the pieces between single-space tokens, empty pieces kept
RECURSIVE SplitSpace(_, _, _)
SplitSpace(s, cur, acc) ==
    IF s = <<>> THEN Append(acc, cur)
    ELSE IF Head(s) = SP THEN SplitSpace(Tail(s), <<>>, Append(acc, cur))
    ELSE SplitSpace(Tail(s), Append(cur, Head(s)), acc)

Split(s) == SplitSpace(s, <<>>, <<>>)

\* line[:line.find(' #')] when ' #' occurs in the line (comment removal)
RECURSIVE DropComment(_, _)
DropComment(s, i) ==
    IF i >= Len(s) THEN s
    ELSE IF s[i] = SP /\ s[i + 1] = HASH THEN SubSeq(s, 1, i - 1)
    ELSE DropComment(s, i + 1)

NoRequirement == [ok |-> FALSE, key |-> ""]

\* pkg_resources.Requirement.parse(line): exactly one requirement
\* "name" or "name specifier" after blank and comment lines are skipped;
\* anything else raises, which the caller catches.
RequirementParse(s) ==
    LET t == Strip(s) IN
    IF t = <<>> \/ Head(t) = HASH THEN NoRequirement
    ELSE LET u == Strip(DropComment(t, 1)) IN
         IF Len(u) = 1 /\ u[1] \in Names
         THEN [ok |-> TRUE, key |-> Lower(u[1])]
         ELSE IF Len(u) = 2 /\ u[1] \in Names /\ u[2] \in Specifiers
         THEN [ok |-> TRUE, key |-> Lower(u[1])]
         ELSE NoRequirement

DisabledSource == " -> mxdev disabled (source)"
DisabledOverride == " -> mxdev disabled (override)"
DisabledIgnore == " -> mxdev disabled (ignore)"
Annotations == {DisabledSource, DisabledOverride, DisabledIgnore}

\* f"# {line.strip()} -> mxdev disabled (...)\n"
Disable(s, annotation) == <<HASH, SP>> \o Strip(s) \o <<annotation, NL>>

Hashes79 == "###############################################################################"

UrlSchemes == {"https://"}

\* urllib.parse.urlparse(file_or_url).scheme is not empty
HasScheme(file_or_url) == file_or_url # <<>> /\ Head(file_or_url) \in UrlSchemes

-----------------------------------------------------------------------------
(* Results of calls: the returned pair, or the exception that escaped *)

Return(reqs, cons) == [req |-> reqs, con |-> cons, err |-> "none"]
Raise(e) == [req |-> <<>>, con |-> <<>>, err |-> e]
NoCall == [req |-> <<>>, con |-> <<>>, err |-> "nocall"]

-----------------------------------------------------------------------------
(* processing.py *)

\* Path(file_or_url).exists()
Exists(file_or_url) == file_or_url \in DOMAIN files

\* request.urlopen(file_or_url) succeeds
Reachable(file_or_url) == file_or_url \in DOMAIN remote

\* Suppress with the source rule left out of constraint context
SuppressSourceInRequirementsOnly(l, key, pkeys, okeys, ikeys, v) ==
    LET l1 == IF v = "r" /\ key \in pkeys THEN Disable(l, DisabledSource) ELSE l
        l2 == IF v = "c" /\ key \in okeys THEN Disable(l1, DisabledOverride) ELSE l1
        l3 == IF v = "c" /\ key \in ikeys THEN Disable(l2, DisabledIgnore) ELSE l2
    IN l3

\* Suppress with the override rule applied in every context
SuppressOverrideAnywhere(l, key, pkeys, okeys, ikeys, v) ==
    LET l1 == IF key \in pkeys THEN Disable(l, DisabledSource) ELSE l
        l2 == IF key \in okeys THEN Disable(l1, DisabledOverride) ELSE l1
        l3 == IF v = "c" /\ key \in ikeys THEN Disable(l2, DisabledIgnore) ELSE l2
    IN l3

\* The suppression statements of process_line, run once the line has parsed:
\* three independent "if" statements, each rewriting the current line.
Suppress(l, key, pkeys, okeys, ikeys, v) ==
    LET l1 == IF key \in pkeys THEN Disable(l, DisabledSource) ELSE l
        l2 == IF v = "c" /\ key \in okeys THEN Disable(l1, DisabledOverride) ELSE l1
        l3 == IF v = "c" /\ key \in ikeys THEN Disable(l2, DisabledIgnore) ELSE l2
    IN l3

\* try: Requirement.parse(line) / except: pass / else: suppress
Classify(l, pkeys, okeys, ikeys, v) ==
    LET parsed == RequirementParse(l) IN
    IF parsed.ok THEN Suppress(l, parsed.key, pkeys, okeys, ikeys, v) ELSE l

\* "if variety == 'c': return [], [line]" / "return [line], []"
Emit(l, v) == IF v = "c" THEN Return(<<>>, <<l>>) ELSE Return(<<l>>, <<>>)

\* The delimiters resolve_dependencies puts around a block that is not empty
WrapRequirements(file_or_url, reqs) ==
    << <<Hashes79, NL>>,
       <<HASH, SP, "begin requirements from: ">> \o file_or_url \o <<NL, NL>> >>
    \o reqs
    \o << <<NL>>,
          <<HASH, SP, "end requirements from: ">> \o file_or_url \o <<NL>>,
          <<Hashes79, NL>> >>

WrapConstraints(file_or_url, cons) ==
    << <<Hashes79, NL>>,
       <<HASH, SP, "begin constraints from: ">> \o file_or_url \o <<NL>>,
       <<NL>> >>
    \o cons
    \o << <<NL>>,
          <<HASH, SP, "end constraints from: ">> \o file_or_url \o <<NL>>,
          <<Hashes79, NL, NL>> >>

\* Delimit without the tests for an empty list
DelimitAlways(file_or_url, r, v) ==
    IF r.err # "none" THEN r
    ELSE Return(IF v = "r" THEN WrapRequirements(file_or_url, r.req) ELSE r.req,
                IF v = "c" THEN WrapConstraints(file_or_url, r.con) ELSE r.con)

Delimit(file_or_url, r, v) ==
    IF r.err # "none" THEN r
    ELSE Return(IF r.req # <<>> /\ v = "r"
                THEN WrapRequirements(file_or_url, r.req) ELSE r.req,
                IF r.con # <<>> /\ v = "c"
                THEN WrapConstraints(file_or_url, r.con) ELSE r.con)

\* the line is a "-c" or a "-r" line
IsDirective(l) == StartsWith(l, "-c") \/ StartsWith(l, "-r")

RECURSIVE process_line(_, _, _, _, _)
RECURSIVE process_io(_, _, _, _, _, _, _)
RECURSIVE resolve_dependencies(_, _, _, _, _)

\* line.split(" ")[1].strip() and the recursive call of a "-c" / "-r" line;
\* a line without a second piece raises IndexError
Include(l, pkeys, okeys, ikeys, v) ==
    LET parts == Split(l) IN
    IF Len(parts) < 2 THEN Raise("IndexError")
    ELSE resolve_dependencies(Strip(parts[2]), pkeys, okeys, ikeys, v)

\* process_line with an include resolved in the context of the including file
process_line_KeepsContext(l, pkeys, okeys, ikeys, v) ==
    IF IsDirective(l) THEN Include(l, pkeys, okeys, ikeys, v)
    ELSE Emit(Classify(l, pkeys, okeys, ikeys, v), v)

process_line(l, pkeys, okeys, ikeys, v) ==
    IF StartsWith(l, "-c") THEN Include(l, pkeys, okeys, ikeys, "c")
    ELSE IF StartsWith(l, "-r") THEN Include(l, pkeys, okeys, ikeys, "r")
    ELSE Emit(Classify(l, pkeys, okeys, ikeys, v), v)

\* for line in fio: requirements += ...; constraints += ...
\* The result stands for the two accumulator lists after the loop.
process_io(fio, reqs, cons, pkeys, okeys, ikeys, v) ==
    IF fio = <<>> THEN Return(reqs, cons)
    ELSE LET new == process_line(Head(fio), pkeys, okeys, ikeys, v) IN
         IF new.err # "none" THEN Raise(new.err)
         ELSE process_io(Tail(fio), reqs \o new.req, cons \o new.con,
                         pkeys, okeys, ikeys, v)

\* resolve_dependencies opening a local path without the exists() test
resolve_dependencies_MissingRaises(file_or_url, pkeys, okeys, ikeys, v) ==
    IF Strip(file_or_url) = <<>> THEN Return(<<>>, <<>>)
    ELSE IF ~HasScheme(file_or_url)
    THEN IF Exists(file_or_url)
         THEN Delimit(file_or_url,
                      process_io(files[file_or_url], <<>>, <<>>,
                                 pkeys, okeys, ikeys, v), v)
         ELSE Raise("FileNotFoundError")
    ELSE IF Reachable(file_or_url)
         THEN Delimit(file_or_url,
                      process_io(remote[file_or_url], <<>>, <<>>,
                                 pkeys, okeys, ikeys, v), v)
         ELSE Raise("URLError")

resolve_dependencies(file_or_url, pkeys, okeys, ikeys, v) ==
    IF Strip(file_or_url) = <<>> THEN Return(<<>>, <<>>)
    ELSE IF ~HasScheme(file_or_url)
    THEN IF Exists(file_or_url)
         THEN Delimit(file_or_url,
                      process_io(files[file_or_url], <<>>, <<>>,
                                 pkeys, okeys, ikeys, v), v)
         ELSE Delimit(file_or_url, Return(<<>>, <<>>), v)
    ELSE IF Reachable(file_or_url)
         THEN Delimit(file_or_url,
                      process_io(remote[file_or_url], <<>>, <<>>,
                                 pkeys, okeys, ikeys, v), v)
         ELSE Raise("URLError")

RECURSIVE OverrideLines(_, _)

\* OverrideLines without the test for a locally managed package
OverrideLinesVerbatim(ovs, pkeys) ==
    IF ovs = <<>> THEN <<>>
    ELSE << Head(ovs)[2] \o <<NL>> >> \o OverrideLines(Tail(ovs), pkeys)

\* write_dev_overrides: the text written for the overrides section
OverrideLines(ovs, pkeys) ==
    IF ovs = <<>> THEN <<>>
    ELSE << IF Head(ovs)[1] \in pkeys
            THEN <<HASH, SP>> \o Head(ovs)[2]
                 \o <<" IGNORE mxdev constraint override. Source override wins!", NL>>
            ELSE Head(ovs)[2] \o <<NL>> >>
         \o OverrideLines(Tail(ovs), pkeys)

write_dev_overrides(ovs, pkeys) ==
    << <<NL, Hashes79, NL>>, <<HASH, SP, "mxdev constraint overrides", NL>> >>
    \o OverrideLines(ovs, pkeys)
    \o << <<NL>> >>

\* The constraints file as write() produces it
WriteConstraints(cons, ovs, pkeys) ==
    cons \o (IF ovs # <<>> THEN write_dev_overrides(ovs, pkeys) ELSE <<>>)

\* read() adding to what the state holds instead of replacing it
AssignAccumulating(old, new) ==
    [req |-> old.req \o new.req, con |-> old.con \o new.con, err |-> new.err]

\* "state.requirements, state.constraints = resolve_dependencies(...)":
\* read() replaces what the state held before
Assign(old, new) == new

-----------------------------------------------------------------------------
(* The inputs: paths, lines, files and configuration *)

Main == <<"main.txt">>
Deps == <<"deps.txt">>
Cons == <<"cons.txt">>
EmptyFile == <<"empty.txt">>
Missing == <<"missing.txt">>
Url == <<"https://", "host/c.txt">>
DownUrl == <<"https://", "down/c.txt">>
Blank == <<SP>>

PkgLine == <<"pkg", "==1.0", NL>>
OtherLine == <<"other", "==2.0", NL>>
Malformed == <<"==1.0", NL>>

RequirementsOf(target) == <<"-r", SP>> \o target \o <<NL>>
ConstraintsOf(target) == <<"-c", SP>> \o target \o <<NL>>

\* Lines the entry point may hold
EntryLines ==
    { PkgLine, OtherLine, Malformed,
      RequirementsOf(Deps), ConstraintsOf(Cons), RequirementsOf(EmptyFile),
      RequirementsOf(Missing), ConstraintsOf(Url), ConstraintsOf(DownUrl),
      <<"-r", SP, NL>>, <<"-r", NL>> }

\* Lines handed to process_line directly
LineInputs ==
    EntryLines \cup
    { <<"Pkg", "==2.0", NL>>, <<"pkg", NL>>, <<SP, "pkg", "==1.0", NL>>,
      <<"pkg", "==1.0", SP, HASH, " pinned", NL>>, <<"other", "==2.0">>,
      <<NL>>, <<HASH, SP, "pkg", "==1.0", NL>>, <<"-e", SP, "./sources/pkg", NL>>,
      <<"-c", NL>>, <<"-c", "cons.txt", NL>>, <<"-c", SP, SP, "cons.txt", NL>>,
      RequirementsOf(Cons), ConstraintsOf(Deps),
      RequirementsOf(Main), ConstraintsOf(Main) }

SeqsUpTo(S, n) == UNION { [1..k -> S] : k \in 0..n }

\* The files below the entry point; includes only point downwards
\* (main.txt -> deps.txt -> cons.txt), so every resolution terminates.
FixedFiles ==
    (Deps :> <<OtherLine, ConstraintsOf(Cons)>>) @@
    (Cons :> <<PkgLine>>) @@
    (EmptyFile :> <<>>)

FileSystem(main) == (Main :> main) @@ FixedFiles

Internet == (Url :> <<PkgLine, OtherLine>>)

\* cfg.overrides keeps the order the overrides were configured in
OverrideTables ==
    { <<>>,
      << <<"pkg", <<"pkg", "==2.0">> >> >>,
      << <<"other", <<"other", "==1.0">> >> >>,
      << <<"pkg", <<"pkg", "==2.0">> >>, <<"other", <<"other", "==1.0">> >> >>,
      << <<"other", <<"other", "==1.0">> >>, <<"pkg", <<"pkg", "==2.0">> >> >> }

KeysOf(ovs) == { ovs[i][1] : i \in 1..Len(ovs) }

Unwritten == << <<"<not written>">> >>

-----------------------------------------------------------------------------
(* Sources and working copies (the git scenario of tests/test_git.py) *)

NoRev == <<"<none>", 0>>
NoBranch == "<none>"
Absent == [head |-> "<absent>", commit |-> <<"<absent>", 0>>]
Detached == "<detached>"

\* the branches createDefaultContent makes, and the default one
Branches == {"master", "test"}
DefaultBranch == "master"

\* a commit is <<branch, n>>: the n-th commit made on that branch;
\* rev is the commit of branch test that adds foo2
PinnedRev == <<"test", 1>>

Source(rev, branch) == [rev |-> rev, branch |-> branch]

Descriptors == { Source(r, b) : r \in {NoRev, PinnedRev}, b \in {NoBranch} \cup Branches }

\* a descriptor breaks the rule that revision and branch exclude each other
BothSet(src) == src.rev # NoRev /\ src.branch # NoBranch

\* a validation that lets every descriptor pass
ValidateNothing(src) == FALSE

\* the validation a command runs before it touches the adapter:
\* TRUE when the descriptor is a configuration error
Invalid(src) == BothSet(src)

\* Target with the default branch left at its first commit, not moved to
\* the fetched tip, when neither revision nor branch is set
TargetDefaultNotForwarded(src, remoteTips) ==
    IF src.rev # NoRev THEN [head |-> Detached, commit |-> src.rev]
    ELSE IF src.branch # NoBranch
    THEN [head |-> src.branch, commit |-> <<src.branch, remoteTips[src.branch]>>]
    ELSE [head |-> DefaultBranch, commit |-> <<DefaultBranch, 1>>]

\* the state the descriptor asks the working copy to be in
Target(src, remoteTips) ==
    IF src.rev # NoRev THEN [head |-> Detached, commit |-> src.rev]
    ELSE IF src.branch # NoBranch
    THEN [head |-> src.branch, commit |-> <<src.branch, remoteTips[src.branch]>>]
    ELSE [head |-> DefaultBranch, commit |-> <<DefaultBranch, remoteTips[DefaultBranch]>>]

\* the adapter operations of a fresh clone followed by the revision/branch step
CloneCalls(src) ==
    <<"clone">> \o (IF src.rev # NoRev THEN <<"checkout revision">>
                    ELSE IF src.branch # NoBranch THEN <<"checkout branch">>
                    ELSE <<>>)

\* the adapter operations of an update of an existing working copy
UpdateCalls(src, copy) ==
    <<"fetch">> \o
    (IF src.rev # NoRev THEN <<"checkout revision">>
     ELSE LET b == IF src.branch # NoBranch THEN src.branch ELSE DefaultBranch IN
          (IF copy.head # b THEN <<"switch branch">> ELSE <<>>) \o <<"fast-forward">>)

InitVcsIdle ==
    /\ source = Source(NoRev, NoBranch)
    /\ tips = [b \in Branches |-> 1]
    /\ wc = Absent
    /\ adapter_calls = <<>>
    /\ exit = "none"

-----------------------------------------------------------------------------
(* Specification of the resolution pipeline: read, resolve, write *)

Init ==
    /\ infile \in {Main, Missing, <<>>, Blank}
    /\ \E main \in SeqsUpTo(EntryLines, MaxLines) :
          /\ infile # Main => main = <<>>
          /\ files = FileSystem(main)
    /\ remote = Internet
    /\ package_keys \in SUBSET Keys
    /\ overrides \in OverrideTables
    /\ override_keys = KeysOf(overrides)
    /\ ignore_keys \in SUBSET {"pkg"}
    /\ line = <<>>
    /\ variety = "r"
    /\ ret = NoCall
    /\ requirements = <<>>
    /\ constraints = <<>>
    /\ out_constraints = Unwritten
    /\ runs = 0
    /\ pc = "start"
    /\ InitVcsIdle

\* read(state): resolve cfg.infile in requirement context into the state
Read ==
    /\ pc \in {"start", "read"}
    /\ runs < MaxRuns
    /\ LET r == resolve_dependencies(infile, package_keys, override_keys,
                                     ignore_keys, "r")
           new == Assign(Return(requirements, constraints), r)
       IN IF r.err = "none"
          THEN /\ requirements' = new.req
               /\ constraints' = new.con
               /\ pc' = "read"
               /\ runs' = runs + 1
          ELSE /\ pc' = "raised"
               /\ UNCHANGED <<requirements, constraints, runs>>
    /\ UNCHANGED <<files, remote, infile, package_keys, override_keys,
                   ignore_keys, overrides, line, variety, ret, out_constraints>>
    /\ UNCHANGED vcsVars

\* a direct call resolve_dependencies(cfg.infile, ..., variety=v)
CallResolve(v) ==
    /\ pc \in {"start", "called"}
    /\ pc = "called" => v = variety
    /\ runs < MaxRuns
    /\ ret' = resolve_dependencies(infile, package_keys, override_keys,
                                   ignore_keys, v)
    /\ variety' = v
    /\ pc' = "called"
    /\ runs' = runs + 1
    /\ UNCHANGED <<files, remote, infile, package_keys, override_keys,
                   ignore_keys, overrides, line, requirements, constraints,
                   out_constraints>>
    /\ UNCHANGED vcsVars

\* write(state): the constraints file
Write ==
    /\ pc = "read"
    /\ out_constraints' = WriteConstraints(constraints, overrides, package_keys)
    /\ pc' = "written"
    /\ UNCHANGED <<files, remote, infile, package_keys, override_keys,
                   ignore_keys, overrides, line, variety, ret, requirements,
                   constraints, runs>>
    /\ UNCHANGED vcsVars

Next ==
    \/ Read
    \/ \E v \in {"r", "c"} : CallResolve(v)
    \/ Write

Spec == Init /\ [][Next]_vars

-----------------------------------------------------------------------------
(* Specification of the line classifier: one call of process_line *)

InitLine ==
    /\ infile = Main
    /\ files \in { FileSystem(main) : main \in {<<>>, <<PkgLine>>, <<OtherLine, PkgLine>>} }
    /\ remote = Internet
    /\ package_keys \in SUBSET Keys
    /\ override_keys \in SUBSET Keys
    /\ ignore_keys \in SUBSET Keys
    /\ overrides = <<>>
    /\ line \in LineInputs
    /\ variety \in {"r", "c"}
    /\ ret = NoCall
    /\ requirements = <<>>
    /\ constraints = <<>>
    /\ out_constraints = Unwritten
    /\ runs = 0
    /\ pc = "start"
    /\ InitVcsIdle

ProcessLine ==
    /\ pc = "start"
    /\ ret' = process_line(line, package_keys, override_keys, ignore_keys, variety)
    /\ pc' = "called"
    /\ runs' = runs + 1
    /\ UNCHANGED <<files, remote, infile, package_keys, override_keys,
                   ignore_keys, overrides, line, variety, requirements,
                   constraints, out_constraints>>
    /\ UNCHANGED vcsVars

NextLine == ProcessLine

SpecLine == InitLine /\ [][NextLine]_vars

-----------------------------------------------------------------------------
(* Reading the output *)

Range(s) == { s[i] : i \in 1..Len(s) }

\* how many tokens of l are in S
Count(l, S) == Cardinality({ i \in 1..Len(l) : l[i] \in S })

\* how many "# " prefixes l starts with
RECURSIVE CommentPrefixes(_)
CommentPrefixes(l) ==
    IF Len(l) >= 2 /\ l[1] = HASH /\ l[2] = SP
    THEN 1 + CommentPrefixes(SubSeq(l, 3, Len(l)))
    ELSE 0

IsComment(l) == StartsWith(Strip(l), HASH)

\* sub occurs in l as a run of consecutive tokens
Contains(l, sub) ==
    \E i \in 1..(Len(l) - Len(sub) + 1) : SubSeq(l, i, i + Len(sub) - 1) = sub

\* the line process_line emitted for a line that is no directive
Emitted == IF variety = "c" THEN ret.con[1] ELSE ret.req[1]

\* process_line was called on a line that parses as a requirement
ParsedCall ==
    /\ pc = "called"
    /\ ~IsDirective(line)
    /\ RequirementParse(line).ok

LineKey == RequirementParse(line).key

\* the lists hold exactly the one line l, in the list of the call's context
EmitsOnly(l) ==
    /\ ret.err = "none"
    /\ IF variety = "c"
       THEN ret.req = <<>> /\ ret.con = <<l>>
       ELSE ret.req = <<l>> /\ ret.con = <<>>

-----------------------------------------------------------------------------
(* Claims about process_line (specification SpecLine) *)

\* C1: the suppression rules apply in the order source, override, ignore and
\* the first match wins: the emitted line carries at most one
\* "mxdev disabled" annotation and one comment prefix; a key in package_keys
\* gives the reason (source) whatever else it is in, and in constraint
\* context (override) beats (ignore).
C1_FirstMatchWins ==
    ParsedCall =>
        /\ Count(Emitted, Annotations) <= 1
        /\ CommentPrefixes(Emitted) <= 1
        /\ LineKey \in package_keys =>
              Count(Emitted, Annotations \ {DisabledSource}) = 0
        /\ (variety = "c" /\ LineKey \in override_keys) =>
              Count(Emitted, {DisabledIgnore}) = 0

\* C2: a line whose parsed key is in package_keys is emitted commented out
\* and annotated "disabled (source)", in requirement and in constraint
\* context; no line returned by process_line or by the resolve_dependencies
\* call of a directive line is an uncommented requirement of a
\* locally-managed key.
C2_SourceDisabled ==
    /\ (ParsedCall /\ LineKey \in package_keys) =>
          /\ EmitsOnly(Emitted)
          /\ IsComment(Emitted)
          /\ Count(Emitted, {DisabledSource}) = 1
          /\ Contains(Emitted, <<HASH, SP>> \o Strip(line) \o <<DisabledSource>>)
    /\ pc = "called" =>
          \A l \in Range(ret.req) \cup Range(ret.con) :
              ~(RequirementParse(l).ok /\ RequirementParse(l).key \in package_keys)

C2_Witness ==
    /\ ParsedCall
    /\ LineKey \in package_keys
    /\ variety = "r"
    /\ Emitted = <<HASH, SP, "pkg", "==1.0", DisabledSource, NL>>

\* C3: override and ignore suppression apply in constraint context only: a
\* constraint-context line with its key in override_keys is emitted as a
\* comment annotated "disabled (override)", with its key in ignore_keys as
\* a comment annotated "disabled (ignore)"; a requirement-context line with
\* its key in override_keys or ignore_keys and not in package_keys is
\* emitted unchanged, and no requirement-context line carries an override
\* or ignore annotation.
C3_ConstraintOnly ==
    ParsedCall =>
        /\ (variety = "c" /\ LineKey \in override_keys) =>
              /\ EmitsOnly(Emitted)
              /\ IsComment(Emitted)
              /\ Count(Emitted, {DisabledOverride}) = 1
        /\ (variety = "c" /\ LineKey \in ignore_keys) =>
              /\ EmitsOnly(Emitted)
              /\ IsComment(Emitted)
              /\ Count(Emitted, {DisabledIgnore}) = 1
        /\ (variety = "r" /\ LineKey \in override_keys \cup ignore_keys
                          /\ LineKey \notin package_keys) =>
              EmitsOnly(line)
        /\ variety = "r" =>
              Count(Emitted, {DisabledOverride, DisabledIgnore}) = 0

C3_Witness ==
    /\ ParsedCall
    /\ variety = "c"
    /\ LineKey \in override_keys
    /\ LineKey \notin package_keys \cup ignore_keys
    /\ Emitted = <<HASH, SP, "other", "==2.0", DisabledOverride, NL>>

\* a "-c" / "-r" line with no target after the first space
MissingTarget(l) ==
    /\ IsDirective(l)
    /\ Len(Split(l)) < 2 \/ Strip(Split(l)[2]) = <<>>

\* C6: process_line never raises for a malformed line: a line that does not
\* parse as a requirement, a "-c" / "-r" line with a missing target
\* included, is forwarded unchanged into the list of the current context.
C6_MalformedPassThrough ==
    (/\ pc = "called"
     /\ \/ ~IsDirective(line) /\ ~RequirementParse(line).ok
        \/ MissingTarget(line))
    => EmitsOnly(line)

-----------------------------------------------------------------------------
(* Claims about the resolution pipeline (specification Spec) *)

\* a resolution has returned or has filled the state
Done == pc \in {"called", "read"}

OutReq == IF pc = "called" THEN ret.req ELSE requirements
OutCon == IF pc = "called" THEN ret.con ELSE constraints
OutErr == IF pc = "called" THEN ret.err ELSE "none"
EntryVariety == IF pc = "called" THEN variety ELSE "r"
Out(k) == IF k = "r" THEN OutReq ELSE OutCon

\* what a path or URL holds, nothing when it cannot be read
Content(path) ==
    IF HasScheme(path) THEN (IF Reachable(path) THEN remote[path] ELSE <<>>)
    ELSE IF Exists(path) THEN files[path] ELSE <<>>

PlainLines(path) == { l \in Range(Content(path)) : ~IsDirective(l) }
Directives(path) ==
    { l \in Range(Content(path)) : IsDirective(l) /\ Len(Split(l)) >= 2 }
TargetOf(l) == Strip(Split(l)[2])
KindOf(l) == IF StartsWith(l, "-c") THEN "c" ELSE "r"

\* the (target, context) pairs a resolution of path in context v walks through
RECURSIVE Reached(_, _)
Reached(path, v) ==
    IF Strip(path) = <<>> THEN {}
    ELSE {<<path, v>>} \cup
         UNION { Reached(TargetOf(l), KindOf(l)) : l \in Directives(path) }

BeginWord(k) == IF k = "r" THEN "begin requirements from: " ELSE "begin constraints from: "
EndWord(k) == IF k = "r" THEN "end requirements from: " ELSE "end constraints from: "
MarkerWords == { BeginWord("r"), BeginWord("c"), EndWord("r"), EndWord("c") }

IsMarker(l) == Len(l) >= 3 /\ l[1] = HASH /\ l[2] = SP /\ l[3] \in MarkerWords
MarkerPath(l) == Strip(SubSeq(l, 4, Len(l)))
IsBegin(l, k, path) == IsMarker(l) /\ l[3] = BeginWord(k) /\ MarkerPath(l) = path
IsEnd(l, k, path) == IsMarker(l) /\ l[3] = EndWord(k) /\ MarkerPath(l) = path
IsRuler(l) == l \in { <<Hashes79, NL>>, <<Hashes79, NL, NL>>, <<NL>> }
IsDelimiter(l) == IsMarker(l) \/ IsRuler(l)

\* l is what the classifier makes of a plain line of a target reached in context k
FromContext(l, k) ==
    \E c \in Reached(infile, EntryVariety) :
        /\ c[2] = k
        /\ \E src \in PlainLines(c[1]) :
              l = Classify(src, package_keys, override_keys, ignore_keys, k)

\* C4: a "-c" / "-r" line never appears in the output; it is replaced by
\* the contents of its target, and every line of the target is classified
\* in the context the directive forces, whatever the context of the file
\* holding the directive: each output line of a list is a delimiter or the
\* classified form of a line of a target reached in that list's context,
\* every such line is in that list, and the delimiters of a list name only
\* targets reached in that list's context.
C4_IncludeContext ==
    (Done /\ OutErr = "none") =>
        \A k \in {"r", "c"} :
            /\ \A l \in Range(Out(k)) :
                  /\ ~IsDirective(l)
                  /\ IsDelimiter(l) \/ FromContext(l, k)
                  /\ IsMarker(l) =>
                        /\ l[3] \in {BeginWord(k), EndWord(k)}
                        /\ <<MarkerPath(l), k>> \in Reached(infile, EntryVariety)
            /\ \A c \in Reached(infile, EntryVariety) :
                  c[2] = k =>
                      \A src \in PlainLines(c[1]) :
                          Classify(src, package_keys, override_keys,
                                   ignore_keys, k) \in Range(Out(k))

\* the scenario: a constraints entry point holding "-r deps.txt" and "pkg==1.0"
C4_Witness ==
    /\ pc = "called"
    /\ variety = "c"
    /\ infile = Main
    /\ files[Main] = <<RequirementsOf(Deps), PkgLine>>
    /\ package_keys = {} /\ override_keys = {} /\ ignore_keys = {}
    /\ ret.req = WrapRequirements(Deps, <<OtherLine>>)
    /\ ret.con = WrapConstraints(Main, WrapConstraints(Cons, <<PkgLine>>) \o <<PkgLine>>)

\* the delimiters of a list are matching begin/end pairs, properly nested,
\* every other line lies inside a pair, and no pair encloses nothing
RECURSIVE Nested(_, _, _)
Nested(list, i, stack) ==
    IF i > Len(list) THEN stack = <<>>
    ELSE LET l == list[i]
             depth == Len(stack)
             Fill(st) == IF st = <<>> THEN st
                         ELSE [st EXCEPT ![Len(st)].filled = TRUE]
         IN IF IsMarker(l) /\ l[3] \in {BeginWord("r"), BeginWord("c")}
            THEN Nested(list, i + 1,
                        Append(stack, [word |-> l[3], path |-> MarkerPath(l),
                                       filled |-> FALSE]))
            ELSE IF IsMarker(l)
            THEN /\ depth > 0
                 /\ stack[depth].filled
                 /\ stack[depth].path = MarkerPath(l)
                 /\ \E k \in {"r", "c"} :
                       stack[depth].word = BeginWord(k) /\ l[3] = EndWord(k)
                 /\ Nested(list, i + 1, Fill(SubSeq(stack, 1, depth - 1)))
            ELSE IF IsRuler(l) THEN Nested(list, i + 1, stack)
            ELSE depth > 0 /\ Nested(list, i + 1, Fill(stack))

\* the list starts and ends with the delimiters naming path
Delimited(list, k, path) ==
    /\ Len(list) >= 6
    /\ list[1] = <<Hashes79, NL>>
    /\ IsBegin(list[2], k, path)
    /\ IsEnd(list[Len(list) - 1], k, path)
    /\ list[Len(list)] \in { <<Hashes79, NL>>, <<Hashes79, NL, NL>> }

HasMarkers(k, path) == \E l \in Range(Out(k)) : IsMarker(l) /\ MarkerPath(l) = path

\* the classifier rewrote the line into a comment
Suppressed(src, k) ==
    Classify(src, package_keys, override_keys, ignore_keys, k) # src

\* the target holds lines, and all of them are suppressed in context k
AllSuppressed(path, k) ==
    /\ Content(path) # <<>>
    /\ \A l \in Range(Content(path)) : ~IsDirective(l) /\ Suppressed(l, k)

\* C5 as stated: every block is wrapped with begin/end delimiters naming its
\* target, and an empty block emits no delimiters, where empty covers a
\* source with no lines and a source whose lines were all suppressed.
C5_EmptyMeansSuppressed ==
    (Done /\ OutErr = "none") =>
        /\ Out(EntryVariety) # <<>> => Delimited(Out(EntryVariety), EntryVariety, infile)
        /\ \A c \in Reached(infile, EntryVariety) :
              (Content(c[1]) = <<>> \/ AllSuppressed(c[1], c[2]))
                  => ~HasMarkers(c[2], c[1])

\* C5 amended: every block is wrapped with begin/end delimiters naming its
\* target, the delimiters nest and none encloses nothing; a source that
\* yields no line (blank, missing or empty) emits no delimiters, while a
\* source whose lines were all suppressed keeps them as comments and is
\* delimited like any other.
C5_Delimiters ==
    (Done /\ OutErr = "none") =>
        /\ Nested(OutReq, 1, <<>>)
        /\ Nested(OutCon, 1, <<>>)
        /\ Out(EntryVariety) # <<>> => Delimited(Out(EntryVariety), EntryVariety, infile)
        /\ \A c \in Reached(infile, EntryVariety) :
              /\ Content(c[1]) = <<>> => ~HasMarkers(c[2], c[1])
              /\ PlainLines(c[1]) # {} =>
                    \E i \in 1..Len(Out(c[2])) : IsBegin(Out(c[2])[i], c[2], c[1])

C5_Witness ==
    /\ pc = "called"
    /\ variety = "c"
    /\ infile = Main
    /\ AllSuppressed(Main, "c")
    /\ ret.con = WrapConstraints(Main, << <<HASH, SP, "pkg", "==1.0", DisabledIgnore, NL>> >>)

\* directives whose target is blank or a local path that does not exist
SkippedIncludes == { RequirementsOf(Missing), <<"-r", SP, NL>> }

RECURSIVE ClassifyAll(_, _)
ClassifyAll(lines, k) ==
    IF lines = <<>> THEN <<>>
    ELSE (IF IsDirective(Head(lines)) THEN <<>>
          ELSE << Classify(Head(lines), package_keys, override_keys,
                           ignore_keys, k) >>)
         \o ClassifyAll(Tail(lines), k)

\* C7: resolving a blank target or a local path that does not exist returns
\* empty requirements and constraints and raises nothing; when such a
\* target is reached by an include, the other lines of the including file
\* are still processed and returned.
C7_BlankOrMissing ==
    /\ infile \in {<<>>, Blank, Missing} =>
          /\ pc # "raised"
          /\ Done => (OutErr = "none" /\ OutReq = <<>> /\ OutCon = <<>>)
    /\ (/\ infile = Main
        /\ \A l \in Range(files[Main]) : IsDirective(l) => l \in SkippedIncludes) =>
          /\ pc # "raised"
          /\ Done =>
                /\ OutErr = "none"
                /\ Out(IF EntryVariety = "r" THEN "c" ELSE "r") = <<>>
                /\ LET kept == ClassifyAll(files[Main], EntryVariety) IN
                   Out(EntryVariety) =
                       IF kept = <<>> THEN <<>>
                       ELSE IF EntryVariety = "r"
                            THEN WrapRequirements(Main, kept)
                            ELSE WrapConstraints(Main, kept)

C7_Witness ==
    /\ pc = "read"
    /\ infile = Main
    /\ files[Main] = <<RequirementsOf(Missing), OtherLine>>
    /\ package_keys = {}
    /\ requirements = WrapRequirements(Main, <<OtherLine>>)
    /\ constraints = <<>>

C9_ConstraintsFile ==
    pc = "written" =>
        LET n == Len(constraints)
            rest == SubSeq(out_constraints, n + 1, Len(out_constraints))
        IN /\ Len(out_constraints) >= n
           /\ SubSeq(out_constraints, 1, n) = constraints
           /\ overrides = <<>> => rest = <<>>
           /\ overrides # <<>> =>
                 /\ Len(rest) = Len(overrides) + 3
                 /\ rest[2] = <<HASH, SP, "mxdev constraint overrides", NL>>
                 /\ \A i \in 1..Len(overrides) :
                       IF overrides[i][1] \in package_keys
                       THEN /\ IsComment(rest[i + 2])
                            /\ Contains(rest[i + 2], overrides[i][2])
                            /\ Count(rest[i + 2],
                                     {" IGNORE mxdev constraint override. Source override wins!"}) = 1
                       ELSE rest[i + 2] = overrides[i][2] \o <<NL>>

C9_Witness ==
    /\ pc = "written"
    /\ Len(overrides) = 2
    /\ overrides[1][1] \in package_keys
    /\ overrides[2][1] \notin package_keys
    /\ constraints # <<>>

-----------------------------------------------------------------------------
(* Specification of the checkout and update commands on one git source *)

InitProcIdle ==
    /\ infile = <<>>
    /\ files = FixedFiles
    /\ remote = Internet
    /\ package_keys = {}
    /\ override_keys = {}
    /\ ignore_keys = {}
    /\ overrides = <<>>
    /\ line = <<>>
    /\ variety = "r"
    /\ ret = NoCall
    /\ requirements = <<>>
    /\ constraints = <<>>
    /\ out_constraints = Unwritten
    /\ runs = 0
    /\ pc = "start"

InitVcs ==
    /\ InitProcIdle
    /\ source \in Descriptors
    /\ tips = [b \in Branches |-> 1]
    /\ wc = Absent
    /\ adapter_calls = <<>>
    /\ exit = "none"

\* develop.sources = {"egg": Source(...)}
Configure(src) ==
    /\ source' = src
    /\ UNCHANGED <<tips, wc, adapter_calls, exit>>
    /\ UNCHANGED procVars

\* somebody commits to a branch of the remote repository
Push(b) ==
    /\ tips[b] < MaxCommits
    /\ tips' = [tips EXCEPT ![b] = @ + 1]
    /\ UNCHANGED <<source, wc, adapter_calls, exit>>
    /\ UNCHANGED procVars

\* shutil.rmtree(src["egg"])
Remove ==
    /\ wc # Absent
    /\ wc' = Absent
    /\ UNCHANGED <<source, tips, adapter_calls, exit>>
    /\ UNCHANGED procVars

\* the checkout command on the source
Checkout ==
    /\ IF Invalid(source)
       THEN /\ exit' = "SystemExit"
            /\ adapter_calls' = <<>>
            /\ wc' = wc
       ELSE IF wc = Absent
       THEN /\ exit' = "ok"
            /\ adapter_calls' = CloneCalls(source)
            /\ wc' = Target(source, tips)
       ELSE /\ exit' = "ok"
            /\ adapter_calls' = <<>>
            /\ wc' = wc
    /\ UNCHANGED <<source, tips>>
    /\ UNCHANGED procVars

\* the update command on the source
Update ==
    /\ IF Invalid(source)
       THEN /\ exit' = "SystemExit"
            /\ adapter_calls' = <<>>
            /\ wc' = wc
       ELSE IF wc = Absent
       THEN /\ exit' = "ok"
            /\ adapter_calls' = CloneCalls(source)
            /\ wc' = Target(source, tips)
       ELSE /\ exit' = "ok"
            /\ adapter_calls' = UpdateCalls(source, wc)
            /\ wc' = Target(source, tips)
    /\ UNCHANGED <<source, tips>>
    /\ UNCHANGED procVars

NextVcs ==
    \/ \E src \in Descriptors : Configure(src)
    \/ \E b \in Branches : Push(b)
    \/ Remove
    \/ Checkout
    \/ Update

SpecVcs == InitVcs /\ [][NextVcs]_vars

\* C10: for a source descriptor with both a revision and a branch, a
\* checkout or an update fails with a fatal configuration error before any
\* adapter operation, so that no working copy is created or changed.
C10_RevisionXorBranch ==
    [][ (BothSet(source) /\ (Checkout \/ Update)) =>
            /\ exit' = "SystemExit"
            /\ adapter_calls' = <<>>
            /\ wc' = wc ]_vars

\* a checkout of an invalid descriptor has failed where no working copy was
C10_Witness ==
    /\ BothSet(source)
    /\ exit = "SystemExit"
    /\ wc = Absent
    /\ adapter_calls = <<>>

\* the descriptor sets neither a revision nor a branch
Unpinned(src) == src.rev = NoRev /\ src.branch = NoBranch

====
